---- MODULE Spec2Model ----
(***************************************************************************)
(* Pagination iterator core of roblox/utilities/iterators.py:              *)
(* PageIterator (cursor protocol), PageNumberIterator (page-number         *)
(* protocol), the Item View (IteratorItems), the Page View (IteratorPages) *)
(* and Iterator.flatten.                                                   *)
(***************************************************************************)
EXTENDS Integers, Sequences, FiniteSets, TLC

\* ------------------------------------------------------------------ bounds
\* number of GETs one iterator may issue in a behaviour
MaxFetch == 3
\* longest data array the server returns
MaxPageLen == 2

\* ------------------------------------------------------- server responses
\* a key that is missing from the JSON body
Absent == "absent"
\* JSON null, Python None
None == "None"
\* values of nextPageCursor / previousPageCursor when the key is present
NextCursors == {"", None, "a", "b"}
PrevCursors == {"p"}

\* what requests.get(...).json() can produce for the cursor protocol:
\* a body {nextPageCursor, previousPageCursor, data} (keys possibly missing)
\* or a failure of the transport; n is the length of the data array
CursorResponses ==
    [status : {"ok"}, nextPageCursor : NextCursors \cup {Absent},
     previousPageCursor : PrevCursors \cup {Absent}, n : 0..MaxPageLen]
    \cup [status : {"error"}, nextPageCursor : {Absent},
          previousPageCursor : {Absent}, n : {0}]

\* the page-number protocol answers with a bare array, or the transport fails
PageNumberResponses ==
    [status : {"ok"}, nextPageCursor : {Absent},
     previousPageCursor : {Absent}, n : 0..MaxPageLen]
    \cup [status : {"error"}, nextPageCursor : {Absent},
          previousPageCursor : {Absent}, n : {0}]

\* before the first page a cursor iterator returns
NoPage == "nopage"

\* before the first GET
NoResponse ==
    [status |-> "none", nextPageCursor |-> Absent,
     previousPageCursor |-> Absent, n |-> 0]

\* the raw records of a response: n records, in order; f names the response
\* (cursor protocol: the f-th GET of the iterator; page-number protocol: the
\* page number asked for)
Page(f, n) == [j \in 1..n |-> <<f, j>>]

\* the handler maps one raw record to one object, in order
Handle(data) == [j \in 1..Len(data) |-> [obj |-> data[j]]]

\* the response an object was built from
PageOf(item) == item.obj[1]

\* Python truthiness of a cursor: "" and None are falsy
Truthy(c) == c \notin {"", None}

\* ------------------------------------------------------------------ state
VARIABLES
    kind,             \* "cursor" (PageIterator) or "pagenumber" (PageNumberIterator)
    next_cursor,      \* PageIterator.next_cursor
    previous_cursor,  \* PageIterator.previous_cursor
    next_started,     \* PageIterator.next_started
    page_number,      \* PageNumberIterator.page_number
    _position,        \* IteratorItems._position
    _items,           \* IteratorItems._items
    pc,               \* "idle", or "flatten" while flatten() is suspended in its loop
    flat,             \* the local list `items` of flatten()
    nfetch,           \* number of GETs this iterator has issued
    sent,             \* the cursor / pageNumber parameter of the latest GET
    got,              \* the answer to the latest GET
    nonempty,         \* page-number protocol: number of GETs answered with a
                      \* non-empty array
    page_cursor,      \* cursor protocol: the nextPageCursor of the latest GET
                      \* whose page next() returned, NoPage before the first
    dropped,          \* the latest response of which __aiter__ discarded unread items
    adv,              \* what the call of next() made by the last operation did
    ret,              \* how the last operation ended, seen by its caller
    exhausted,        \* some next() call of this iterator has raised NoMoreItems
    script,           \* the answers the server has given, in order, replayed to
                      \* every iterator constructed for the same query
    traversal,        \* the traversal in progress: "pages", "items", "flatten",
                      \* "steps" (one Item View stepped on), or "none"
    ended,            \* per traversal: "", "running", or how it ended
    yielded,          \* per traversal: what it has yielded or returned
    calls             \* next() calls of two callers that may overlap: per caller
                      \* the pageNumber of its GET in flight and how its call
                      \* ended, and what has been asked of the server

iter == <<next_cursor, previous_cursor, next_started, page_number>>
view == <<_position, _items>>
server == <<nfetch, sent, got>>
vars == <<kind, next_cursor, previous_cursor, next_started, page_number,
          _position, _items, pc, flat, nfetch, sent, got, nonempty, page_cursor,
          dropped,
          adv, ret, exhausted, script, traversal, ended, yielded, calls>>
runs == <<script, traversal, ended, yielded, calls>>

\* the two callers whose next() calls may overlap
Callers == {1, 2}

\* no call in flight, none made
NoCalls ==
    [param |-> [c \in Callers |-> 0], out |-> [c \in Callers |-> ""],
     page |-> [c \in Callers |-> 0], overlap |-> FALSE,
     asked |-> {}, twice |-> {}]

\* outcomes of a call
NoCall == [called |-> FALSE, fetched |-> FALSE, raised |-> "", data |-> <<>>]
Raised(e, f) == [called |-> TRUE, fetched |-> f, raised |-> e, data |-> <<>>]
Returned(d) == [called |-> TRUE, fetched |-> TRUE, raised |-> "", data |-> d]

Ret(o, r, v) == [op |-> o, raised |-> r, value |-> v]

\* ------------------------------------------------------------ the iterators
\* variant: the GET is sent a second time before its answer is used
Get_Twice(param, r) ==
    /\ nfetch' = nfetch + 2
    /\ sent' = param
    /\ got' = r

\* requests.get: one round trip
Get(param, r) ==
    /\ nfetch' = nfetch + 1
    /\ sent' = param
    /\ got' = r

\* variant: only the empty string counts as "no cursor", null does not
NoMorePages_StringOnly == next_started /\ next_cursor = ""

\* variant: the guard without the next_started flag
NoMorePages_NoStarted == ~Truthy(next_cursor)

\* the guard at the head of PageIterator.next
NoMorePages == next_started /\ ~Truthy(next_cursor)

\* variant: an empty last page is turned into NoMoreItems
PageIterator_next_EmptyIsEnd(r) ==
    IF next_started /\ ~Truthy(next_cursor)
    THEN /\ adv' = Raised("NoMoreItems", FALSE)
         /\ UNCHANGED <<next_cursor, previous_cursor, next_started, server>>
    ELSE /\ next_started' = TRUE
         /\ Get(next_cursor, r)
         /\ IF r.status # "ok"
            THEN /\ adv' = Raised("TransportError", TRUE)
                 /\ UNCHANGED <<next_cursor, previous_cursor>>
            ELSE IF r.nextPageCursor = Absent
            THEN /\ adv' = Raised("KeyError", TRUE)
                 /\ UNCHANGED <<next_cursor, previous_cursor>>
            ELSE /\ next_cursor' = r.nextPageCursor
                 /\ IF r.previousPageCursor = Absent
                    THEN /\ adv' = Raised("KeyError", TRUE)
                         /\ UNCHANGED previous_cursor
                    ELSE /\ previous_cursor' = r.previousPageCursor
                         /\ adv' = IF r.n = 0 /\ ~Truthy(r.nextPageCursor)
                                   THEN Raised("NoMoreItems", TRUE)
                                   ELSE Returned(Handle(Page(nfetch + 1, r.n)))

\* PageIterator.next; r is the answer to the GET when one is issued
PageIterator_next(r) ==
    IF NoMorePages
    THEN /\ adv' = Raised("NoMoreItems", FALSE)
         /\ UNCHANGED <<next_cursor, previous_cursor, next_started, server>>
    ELSE /\ next_started' = TRUE
         /\ Get(next_cursor, r)
         /\ IF r.status # "ok"
            THEN /\ adv' = Raised("TransportError", TRUE)
                 /\ UNCHANGED <<next_cursor, previous_cursor>>
            ELSE IF r.nextPageCursor = Absent
            THEN /\ adv' = Raised("KeyError", TRUE)
                 /\ UNCHANGED <<next_cursor, previous_cursor>>
            ELSE /\ next_cursor' = r.nextPageCursor
                 /\ IF r.previousPageCursor = Absent
                    THEN /\ adv' = Raised("KeyError", TRUE)
                         /\ UNCHANGED previous_cursor
                    ELSE /\ previous_cursor' = r.previousPageCursor
                         /\ adv' = Returned(Handle(Page(nfetch + 1, r.n)))

\* variant: page_number is incremented before the array is examined
PageNumberIterator_next_EarlyIncrement(r) ==
    /\ Get(page_number, r)
    /\ IF r.status # "ok"
       THEN /\ adv' = Raised("TransportError", TRUE)
            /\ UNCHANGED page_number
       ELSE /\ page_number' = page_number + 1
            /\ adv' = IF r.n = 0
                      THEN Raised("NoMoreItems", TRUE)
                      ELSE Returned(Handle(Page(page_number, r.n)))

\* variant: line 286 is missing, page_number is never incremented
PageNumberIterator_next_NoIncrement(r) ==
    /\ Get(page_number, r)
    /\ UNCHANGED page_number
    /\ adv' = IF r.status # "ok" THEN Raised("TransportError", TRUE)
              ELSE IF r.n = 0 THEN Raised("NoMoreItems", TRUE)
              ELSE Returned(Handle(Page(page_number, r.n)))

\* PageNumberIterator.next
PageNumberIterator_next(r) ==
    /\ Get(page_number, r)
    /\ IF r.status # "ok"
       THEN /\ adv' = Raised("TransportError", TRUE)
            /\ UNCHANGED page_number
       ELSE IF r.n = 0
       THEN /\ adv' = Raised("NoMoreItems", TRUE)
            /\ UNCHANGED page_number
       ELSE /\ page_number' = page_number + 1
            /\ adv' = Returned(Handle(Page(page_number, r.n)))

\* ----------------------------------- PageNumberIterator.next, at its await
\* lines 273-280 up to the await: caller c's call reads page_number into the
\* parameters of its GET and sends it
PageNumberIterator_next_send(c) ==
    /\ nfetch' = nfetch + 1
    /\ sent' = page_number
    /\ calls' = [calls EXCEPT
                    !.param[c] = page_number,
                    !.asked = @ \cup {page_number},
                    !.overlap = @ \/ \E d \in Callers \ {c} :
                                        calls.param[d] # 0]
    /\ UNCHANGED <<page_number, got, nonempty, adv, ret, exhausted>>

\* variant: `self.page_number = <the number asked for> + 1`
PageNumberIterator_next_resume_FromRequest(c, r) ==
    /\ got' = r
    /\ IF r.status # "ok"
       THEN /\ adv' = Raised("TransportError", TRUE)
            /\ UNCHANGED page_number
       ELSE IF r.n = 0
       THEN /\ adv' = Raised("NoMoreItems", TRUE)
            /\ UNCHANGED page_number
       ELSE /\ page_number' = calls.param[c] + 1
            /\ adv' = Returned(Handle(Page(calls.param[c], r.n)))
    /\ nonempty' = nonempty + (IF r.status = "ok" /\ r.n > 0 THEN 1 ELSE 0)
    /\ exhausted' = (exhausted \/ adv'.raised = "NoMoreItems")
    /\ ret' = Ret("next", adv'.raised, adv'.data)
    /\ calls' = [calls EXCEPT
                    !.param[c] = 0,
                    !.out[c] = IF adv'.raised = "" THEN "page" ELSE adv'.raised,
                    !.page[c] = IF adv'.raised = "" THEN calls.param[c] ELSE 0,
                    !.twice = IF /\ adv'.raised = ""
                                 /\ \E d \in Callers \ {c} :
                                       /\ calls.out[d] = "page"
                                       /\ calls.page[d] = calls.param[c]
                              THEN @ \cup {calls.param[c]} ELSE @]
    /\ UNCHANGED <<nfetch, sent>>

\* lines 281-297: caller c's call resumes with the answer r to its GET; the
\* page it returns is the page whose number it had asked for
PageNumberIterator_next_resume(c, r) ==
    /\ got' = r
    /\ IF r.status # "ok"
       THEN /\ adv' = Raised("TransportError", TRUE)
            /\ UNCHANGED page_number
       ELSE IF r.n = 0
       THEN /\ adv' = Raised("NoMoreItems", TRUE)
            /\ UNCHANGED page_number
       ELSE /\ page_number' = page_number + 1
            /\ adv' = Returned(Handle(Page(calls.param[c], r.n)))
    /\ nonempty' = nonempty + (IF r.status = "ok" /\ r.n > 0 THEN 1 ELSE 0)
    /\ exhausted' = (exhausted \/ adv'.raised = "NoMoreItems")
    /\ ret' = Ret("next", adv'.raised, adv'.data)
    /\ calls' = [calls EXCEPT
                    !.param[c] = 0,
                    !.out[c] = IF adv'.raised = "" THEN "page" ELSE adv'.raised,
                    !.page[c] = IF adv'.raised = "" THEN calls.param[c] ELSE 0,
                    !.twice = IF /\ adv'.raised = ""
                                 /\ \E d \in Callers \ {c} :
                                       /\ calls.out[d] = "page"
                                       /\ calls.page[d] = calls.param[c]
                              THEN @ \cup {calls.param[c]} ELSE @]
    /\ UNCHANGED <<nfetch, sent>>

\* self.next() on the concrete iterator
next(r) ==
    /\ IF kind = "cursor"
       THEN /\ PageIterator_next(r)
            /\ page_cursor' = IF adv'.fetched /\ adv'.raised = ""
                               THEN r.nextPageCursor ELSE page_cursor
            /\ UNCHANGED <<page_number, nonempty>>
       ELSE /\ PageNumberIterator_next(r)
            /\ nonempty' = nonempty + (IF r.status = "ok" /\ r.n > 0 THEN 1 ELSE 0)
            /\ UNCHANGED <<next_cursor, previous_cursor, next_started,
                           page_cursor>>
    /\ exhausted' = (exhausted \/ adv'.raised = "NoMoreItems")

\* the answers the server can give to the next GET of this iterator
Responses == IF kind = "cursor" THEN CursorResponses ELSE PageNumberResponses

\* next() would issue a GET in this state
WillFetch == ~(kind = "cursor" /\ NoMorePages)

\* the GET budget of the behaviour
CanCall == WillFetch => nfetch < MaxFetch

\* ------------------------------------------------------------ the Item View
\* variant: the restart rewinds the position and keeps the buffered page
IteratorItems_aiter_KeepBuffer ==
    /\ pc = "idle"
    /\ _position' = 0
    /\ dropped' = IF _position < Len(_items) THEN PageOf(_items[Len(_items)])
                   ELSE dropped
    /\ adv' = NoCall
    /\ ret' = Ret("items_aiter", "", <<>>)
    /\ UNCHANGED <<kind, iter, _items, pc, flat, server, nonempty, page_cursor, exhausted>>

\* IteratorItems.__aiter__
IteratorItems_aiter ==
    /\ pc = "idle"
    /\ _position' = 0
    /\ _items' = <<>>
    /\ dropped' = IF _position < Len(_items) THEN PageOf(_items[Len(_items)])
                   ELSE dropped
    /\ adv' = NoCall
    /\ ret' = Ret("items_aiter", "", <<>>)
    /\ UNCHANGED <<kind, iter, pc, flat, server, nonempty, page_cursor, exhausted>>

\* lines 53-61 of IteratorItems.__anext__: read at pos in its
ReadItem(pos, its) ==
    IF pos < Len(its)
    THEN /\ ret' = Ret("items_anext", "", its[pos + 1])
         /\ _position' = pos + 1
    ELSE /\ ret' = Ret("items_anext", "StopAsyncIteration", <<>>)
         /\ _position' = pos

\* variant: line 43 is missing, the position is kept across pages
IteratorItems_anext_NoRewind(r) ==
    /\ pc = "idle"
    /\ IF _position = Len(_items)
       THEN /\ CanCall
            /\ next(r)
            /\ IF adv'.raised = "NoMoreItems"
               THEN /\ _position' = 0
                    /\ _items' = <<>>
                    /\ ret' = Ret("items_anext", "StopAsyncIteration", <<>>)
               ELSE IF adv'.raised # ""
               THEN /\ UNCHANGED <<_position, _items>>
                    /\ ret' = Ret("items_anext", adv'.raised, <<>>)
               ELSE /\ _items' = adv'.data
                    /\ ReadItem(_position, adv'.data)
       ELSE /\ adv' = NoCall
            /\ UNCHANGED <<iter, server, nonempty, page_cursor, exhausted, _items>>
            /\ ReadItem(_position, _items)
    /\ UNCHANGED <<kind, pc, flat, dropped>>

\* variant: a bare `except:` at line 47, every failure ends the sequence
IteratorItems_anext_CatchAll(r) ==
    /\ pc = "idle"
    /\ IF _position = Len(_items)
       THEN /\ CanCall
            /\ next(r)
            /\ IF adv'.raised # ""
               THEN /\ _position' = 0
                    /\ _items' = <<>>
                    /\ ret' = Ret("items_anext", "StopAsyncIteration", <<>>)
               ELSE /\ _items' = adv'.data
                    /\ ReadItem(0, adv'.data)
       ELSE /\ adv' = NoCall
            /\ UNCHANGED <<iter, server, nonempty, page_cursor, exhausted, _items>>
            /\ ReadItem(_position, _items)
    /\ UNCHANGED <<kind, pc, flat, dropped>>

\* IteratorItems.__anext__
IteratorItems_anext(r) ==
    /\ pc = "idle"
    /\ IF _position = Len(_items)
       THEN /\ CanCall
            /\ next(r)
            /\ IF adv'.raised = "NoMoreItems"
               THEN /\ _position' = 0
                    /\ _items' = <<>>
                    /\ ret' = Ret("items_anext", "StopAsyncIteration", <<>>)
               ELSE IF adv'.raised # ""
               THEN /\ _position' = 0
                    /\ UNCHANGED _items
                    /\ ret' = Ret("items_anext", adv'.raised, <<>>)
               ELSE /\ _items' = adv'.data
                    /\ ReadItem(0, adv'.data)
       ELSE /\ adv' = NoCall
            /\ UNCHANGED <<iter, server, nonempty, page_cursor, exhausted, _items>>
            /\ ReadItem(_position, _items)
    /\ UNCHANGED <<kind, pc, flat, dropped>>

\* ------------------------------------------------------------ the Page View
\* variant: the `except NoMoreItems` of lines 76-80 is missing
IteratorPages_anext_NoCatch(r) ==
    /\ pc = "idle"
    /\ CanCall
    /\ next(r)
    /\ ret' = Ret("pages_anext", adv'.raised, adv'.data)
    /\ UNCHANGED <<kind, view, pc, flat, dropped>>

\* variant: the Page View keeps the page it returns in the Item View's buffer
IteratorPages_anext_FillsBuffer(r) ==
    /\ pc = "idle"
    /\ CanCall
    /\ next(r)
    /\ ret' = IF adv'.raised = "NoMoreItems"
              THEN Ret("pages_anext", "StopAsyncIteration", <<>>)
              ELSE Ret("pages_anext", adv'.raised, adv'.data)
    /\ _items' = IF adv'.raised = "" THEN adv'.data ELSE _items
    /\ _position' = IF adv'.raised = "" THEN 0 ELSE _position
    /\ UNCHANGED <<kind, pc, flat, dropped>>

\* IteratorPages.__anext__
IteratorPages_anext(r) ==
    /\ pc = "idle"
    /\ CanCall
    /\ next(r)
    /\ ret' = IF adv'.raised = "NoMoreItems"
              THEN Ret("pages_anext", "StopAsyncIteration", <<>>)
              ELSE Ret("pages_anext", adv'.raised, adv'.data)
    /\ UNCHANGED <<kind, view, pc, flat, dropped>>

\* --------------------------------------------------------- direct advance()
\* a caller awaiting iterator.next() itself
Iterator_next(r) ==
    /\ pc = "idle"
    /\ CanCall
    /\ next(r)
    /\ ret' = Ret("next", adv'.raised, adv'.data)
    /\ UNCHANGED <<kind, view, pc, flat, dropped>>

\* ------------------------------------------------------ Iterator.__aiter__
\* variant: `return self._items.__aiter__()`, the view is reset on the way
Iterator_aiter_Resets ==
    /\ pc = "idle"
    /\ _position' = 0
    /\ _items' = <<>>
    /\ adv' = NoCall
    /\ ret' = Ret("aiter", "", <<>>)
    /\ UNCHANGED <<kind, iter, pc, flat, server, nonempty, page_cursor,
                   exhausted, dropped>>

\* Iterator.__aiter__, what `async for item in iterator` calls: the Item View
\* is handed out as it is, and `async for` goes on with its __anext__
Iterator_aiter ==
    /\ pc = "idle"
    /\ adv' = NoCall
    /\ ret' = Ret("aiter", "", <<>>)
    /\ UNCHANGED <<kind, iter, view, pc, flat, server, nonempty, page_cursor,
                   exhausted, dropped>>

\* ---------------------------------------------------------------- flatten()
\* variant: `items = new_items` in place of `items += new_items`
FlattenPass_Overwrite(acc, r) ==
    /\ CanCall
    /\ next(r)
    /\ IF adv'.raised = "NoMoreItems"
       THEN /\ pc' = "idle"
            /\ flat' = acc
            /\ ret' = Ret("flatten", "", acc)
       ELSE IF adv'.raised # ""
       THEN /\ pc' = "idle"
            /\ flat' = acc
            /\ ret' = Ret("flatten", adv'.raised, <<>>)
       ELSE /\ pc' = "flatten"
            /\ flat' = adv'.data
            /\ ret' = Ret("flatten", "pending", <<>>)
    /\ UNCHANGED <<kind, view, dropped>>

\* variant: `items = new_items + items`, the new page put in front
FlattenPass_Prepend(acc, r) ==
    /\ CanCall
    /\ next(r)
    /\ IF adv'.raised = "NoMoreItems"
       THEN /\ pc' = "idle"
            /\ flat' = acc
            /\ ret' = Ret("flatten", "", acc)
       ELSE IF adv'.raised # ""
       THEN /\ pc' = "idle"
            /\ flat' = acc
            /\ ret' = Ret("flatten", adv'.raised, <<>>)
       ELSE /\ pc' = "flatten"
            /\ flat' = adv'.data \o acc
            /\ ret' = Ret("flatten", "pending", <<>>)
    /\ UNCHANGED <<kind, view, dropped>>

\* one pass of the `while True` loop of Iterator.flatten, items being acc
FlattenPass(acc, r) ==
    /\ CanCall
    /\ next(r)
    /\ IF adv'.raised = "NoMoreItems"
       THEN /\ pc' = "idle"
            /\ flat' = acc
            /\ ret' = Ret("flatten", "", acc)
       ELSE IF adv'.raised # ""
       THEN /\ pc' = "idle"
            /\ flat' = acc
            /\ ret' = Ret("flatten", adv'.raised, <<>>)
       ELSE /\ pc' = "flatten"
            /\ flat' = acc \o adv'.data
            /\ ret' = Ret("flatten", "pending", <<>>)
    /\ UNCHANGED <<kind, view, dropped>>

\* Iterator.flatten is called: items = [] and the first pass of the loop
Iterator_flatten(r) ==
    /\ pc = "idle"
    /\ FlattenPass(<<>>, r)

\* flatten() resumes after the await of a pass that returned a page
Iterator_flatten_resume(r) ==
    /\ pc = "flatten"
    /\ FlattenPass(flat, r)

\* ------------------------------------------------------------ specification
\* the state after PageIterator.__init__ / PageNumberIterator.__init__
Constructed ==
    /\ next_cursor = ""
    /\ previous_cursor = ""
    /\ next_started = FALSE
    /\ page_number = 1
    /\ _position = 0
    /\ _items = <<>>
    /\ pc = "idle"
    /\ flat = <<>>
    /\ nfetch = 0
    /\ sent = ""
    /\ got = NoResponse
    /\ nonempty = 0
    /\ page_cursor = NoPage
    /\ dropped = 0
    /\ adv = NoCall
    /\ ret = Ret("init", "", <<>>)
    /\ exhausted = FALSE

\* the same constructors run again: the next state is a fresh iterator
Reconstructed ==
    /\ next_cursor' = ""
    /\ previous_cursor' = ""
    /\ next_started' = FALSE
    /\ page_number' = 1
    /\ _position' = 0
    /\ _items' = <<>>
    /\ pc' = "idle"
    /\ flat' = <<>>
    /\ nfetch' = 0
    /\ sent' = ""
    /\ got' = NoResponse
    /\ nonempty' = 0
    /\ page_cursor' = NoPage
    /\ dropped' = 0
    /\ adv' = NoCall
    /\ ret' = Ret("init", "", <<>>)
    /\ exhausted' = FALSE

NoRuns ==
    /\ script = <<>>
    /\ calls = NoCalls
    /\ ended = [pages |-> "", items |-> "", flatten |-> ""]
    /\ yielded = [pages |-> <<>>, items |-> <<>>, flatten |-> <<>>]

\* one iterator, used by its caller in any sequential order, against a server
\* that may answer each GET in any way
Init ==
    /\ kind \in {"cursor", "pagenumber"}
    /\ Constructed
    /\ traversal = "none"
    /\ NoRuns

ItemsRestart == IteratorItems_aiter /\ UNCHANGED runs
ItemsStep == \E r \in Responses : IteratorItems_anext(r) /\ UNCHANGED runs
PagesStep == \E r \in Responses : IteratorPages_anext(r) /\ UNCHANGED runs
Advance == \E r \in Responses : Iterator_next(r) /\ UNCHANGED runs
Flatten == \E r \in Responses : Iterator_flatten(r) /\ UNCHANGED runs
FlattenResume ==
    \E r \in Responses : Iterator_flatten_resume(r) /\ UNCHANGED runs

Next ==
    \/ ItemsRestart
    \/ ItemsStep
    \/ PagesStep
    \/ Advance
    \/ Flatten
    \/ FlattenResume

Spec == Init /\ [][Next]_vars

\* ---------------------------------------- traversals of an identical sequence
\* Three traversals, each on a freshly constructed iterator of the same query:
\* `async for page in it.pages()`, `async for item in it.items()` and
\* `await it.flatten()`.  The server answers the f-th GET of each iterator
\* with the same response, script[f], chosen freely the first time it is
\* needed.

\* r is the server's answer to the GET the next next() call would issue
Served(r) ==
    IF ~WillFetch THEN UNCHANGED script
    ELSE IF nfetch < Len(script)
    THEN r = script[nfetch + 1] /\ UNCHANGED script
    ELSE script' = Append(script, r)

\* the traversal t goes on: its loop takes a step that yields out
Yield(t, out) ==
    /\ yielded' = [yielded EXCEPT ![t] = Append(@, out)]
    /\ UNCHANGED ended

\* the traversal t ends the way e says
End(t, e) ==
    /\ ended' = [ended EXCEPT ![t] = e]
    /\ UNCHANGED yielded

\* one pass of `async for page in iterator.pages()`
PagesTraversalStep ==
    /\ traversal = "pages"
    /\ ended.pages = "running"
    /\ \E r \in Responses :
          /\ Served(r)
          /\ IteratorPages_anext(r)
    /\ IF ret'.raised = "" THEN Yield("pages", ret'.value)
       ELSE End("pages", ret'.raised)
    /\ UNCHANGED <<traversal, calls>>

\* `async for item in iterator.items()` begins: IteratorItems.__aiter__
ItemsTraversalStart ==
    /\ traversal = "items"
    /\ ended.items = ""
    /\ IteratorItems_aiter
    /\ End("items", "running")
    /\ UNCHANGED <<script, traversal, calls>>

\* one pass of `async for item in iterator.items()`
ItemsTraversalStep ==
    /\ traversal = "items"
    /\ ended.items = "running"
    /\ \E r \in Responses :
          /\ IF _position = Len(_items) THEN Served(r) ELSE UNCHANGED script
          /\ IteratorItems_anext(r)
    /\ IF ret'.raised = "" THEN Yield("items", ret'.value)
       ELSE End("items", ret'.raised)
    /\ UNCHANGED <<traversal, calls>>

\* `await iterator.flatten()`, up to its first await that returns a page
FlattenCall ==
    /\ traversal = "flatten"
    /\ ended.flatten = ""
    /\ \E r \in Responses :
          /\ Served(r)
          /\ Iterator_flatten(r)
    /\ ended' = [ended EXCEPT !.flatten =
                    IF ret'.raised = "" THEN "returned" ELSE
                    IF ret'.raised = "pending" THEN "running" ELSE ret'.raised]
    /\ yielded' = [yielded EXCEPT !.flatten = ret'.value]
    /\ UNCHANGED <<traversal, calls>>

\* flatten() goes on after a page
FlattenGoesOn ==
    /\ traversal = "flatten"
    /\ ended.flatten = "running"
    /\ \E r \in Responses :
          /\ Served(r)
          /\ Iterator_flatten_resume(r)
    /\ ended' = [ended EXCEPT !.flatten =
                    IF ret'.raised = "" THEN "returned" ELSE
                    IF ret'.raised = "pending" THEN "running" ELSE ret'.raised]
    /\ yielded' = [yielded EXCEPT !.flatten = ret'.value]
    /\ UNCHANGED <<traversal, calls>>

\* the traversal in progress is over: a new iterator is constructed for the
\* next one (PageIterator.__init__ / PageNumberIterator.__init__)
NextTraversal ==
    /\ \/ /\ traversal = "pages"
          /\ ended.pages \notin {"", "running"}
          /\ traversal' = "items"
          /\ UNCHANGED ended
       \/ /\ traversal = "items"
          /\ ended.items \notin {"", "running"}
          /\ traversal' = "flatten"
          /\ UNCHANGED ended
    /\ Reconstructed
    /\ UNCHANGED <<kind, script, yielded, calls>>

InitRuns ==
    /\ kind \in {"cursor", "pagenumber"}
    /\ Constructed
    /\ traversal = "pages"
    /\ script = <<>>
    /\ calls = NoCalls
    /\ ended = [pages |-> "running", items |-> "", flatten |-> ""]
    /\ yielded = [pages |-> <<>>, items |-> <<>>, flatten |-> <<>>]

NextRuns ==
    \/ PagesTraversalStep
    \/ ItemsTraversalStart
    \/ ItemsTraversalStep
    \/ FlattenCall
    \/ FlattenGoesOn
    \/ NextTraversal

SpecRuns == InitRuns /\ [][NextRuns]_vars

\* ------------------------------------------- traversals of a finite server
\* The same traversals against a server with finitely many pages: every GET
\* is answered with a well-formed body, and the MaxFetch-th page at the latest
\* is the last one (an empty nextPageCursor, or an empty array).  The caller
\* of a traversal keeps stepping it until it is over.

\* the pages s the server has shown so far are pages of such a server
FinitePages(s) ==
    \A i \in 1..Len(s) :
        /\ s[i].status = "ok"
        /\ kind = "cursor"
              => /\ s[i].nextPageCursor # Absent
                 /\ s[i].previousPageCursor # Absent
                 /\ i = MaxFetch => ~Truthy(s[i].nextPageCursor)
        /\ kind = "pagenumber" => (i = MaxFetch => s[i].n = 0)

FinitePagesStep == PagesTraversalStep /\ FinitePages(script')
FiniteItemsStart == ItemsTraversalStart
FiniteItemsStep == ItemsTraversalStep /\ FinitePages(script')
FiniteFlattenCall == FlattenCall /\ FinitePages(script')
FiniteFlattenGoesOn == FlattenGoesOn /\ FinitePages(script')
FiniteNextTraversal == NextTraversal

NextFinite ==
    \/ FinitePagesStep
    \/ FiniteItemsStart
    \/ FiniteItemsStep
    \/ FiniteFlattenCall
    \/ FiniteFlattenGoesOn
    \/ FiniteNextTraversal

\* `async for` and the `while True` of flatten() take their next step as long
\* as one is left to take
SpecFinite == InitRuns /\ [][NextFinite]_vars /\ WF_vars(NextFinite)

\* ------------------------------------------------ one Item View, stepped on
\* The caller of one Item View calls __anext__ again and again, however the
\* step before ended and without ever restarting the view; the server answers
\* each GET in any way.  yielded.items is what the steps have yielded so far
\* and ended.items how the latest step that yielded nothing ended.
InitSteps ==
    /\ kind \in {"cursor", "pagenumber"}
    /\ Constructed
    /\ traversal = "steps"
    /\ script = <<>>
    /\ calls = NoCalls
    /\ ended = [pages |-> "", items |-> "running", flatten |-> ""]
    /\ yielded = [pages |-> <<>>, items |-> <<>>, flatten |-> <<>>]

StepOn ==
    /\ traversal = "steps"
    /\ \E r \in Responses : IteratorItems_anext(r)
    /\ IF ret'.raised = "" THEN Yield("items", ret'.value)
       ELSE End("items", ret'.raised)
    /\ UNCHANGED <<script, traversal, calls>>

\* a step that finds an unread item in the buffer (line 41 false)
StepReading == _position < Len(_items) /\ StepOn

\* a step that finds the buffer read to its end and calls next() (line 41 true)
StepFetching == _position = Len(_items) /\ StepOn

NextSteps ==
    \/ StepReading
    \/ StepFetching

SpecSteps == InitSteps /\ [][NextSteps]_vars

\* ------------------------------------------- traversals begun the two ways
\* One iterator whose items are traversed again and again: a traversal is
\* begun on the iterator itself (`async for item in iterator`) or on its Item
\* View (`async for item in iterator.items()`), takes some steps, and may be
\* left by its caller before the sequence has terminated.
IteratorStart == Iterator_aiter /\ UNCHANGED runs

NextStarts ==
    \/ IteratorStart
    \/ ItemsRestart
    \/ ItemsStep

SpecStarts == Init /\ [][NextStarts]_vars

\* ------------------------------------------------ two callers of next()
\* Two callers share one page-number iterator.  In each round either of them
\* may call next() once; a call is suspended at its await, so the other
\* caller's call may be sent before the first one resumes.  The server
\* answers each GET in any way.
Elsewhere ==
    <<kind, next_cursor, previous_cursor, next_started, _position, _items, pc,
      flat, dropped, page_cursor, script, traversal, ended, yielded>>

InitOverlap ==
    /\ kind = "pagenumber"
    /\ Constructed
    /\ traversal = "none"
    /\ NoRuns

CallerSends ==
    \E c \in Callers :
        /\ calls.param[c] = 0
        /\ calls.out[c] = ""
        /\ nfetch < MaxFetch
        /\ PageNumberIterator_next_send(c)
        /\ UNCHANGED Elsewhere

CallerResumes ==
    \E c \in Callers : \E r \in PageNumberResponses :
        /\ calls.param[c] # 0
        /\ PageNumberIterator_next_resume(c, r)
        /\ UNCHANGED Elsewhere

\* both callers are back from their calls of this round, or made none
NextRound ==
    /\ \A c \in Callers : calls.param[c] = 0
    /\ \E c \in Callers : calls.out[c] # ""
    /\ calls' = [calls EXCEPT !.out = [c \in Callers |-> ""],
                              !.page = [c \in Callers |-> 0],
                              !.overlap = FALSE]
    /\ UNCHANGED <<Elsewhere, page_number, nfetch, sent, got, nonempty, adv,
                   ret, exhausted>>

NextOverlap ==
    \/ CallerSends
    \/ CallerResumes
    \/ NextRound

SpecOverlap == InitOverlap /\ [][NextOverlap]_vars

\* ------------------------------------------------------------------ claims

\* C1: once a next() call has raised NoMoreItems, every later next() call on
\* the same iterator raises NoMoreItems too and returns no page, whatever the
\* server answers (a call whose GET the transport failed is left aside).
C1_ExhaustionIsStable ==
    (exhausted /\ adv.called /\ ~(adv.fetched /\ got.status = "error"))
        => adv.raised = "NoMoreItems"

\* C4: in a cursor iterator with next_started true and next_cursor empty, a
\* next() call raises NoMoreItems without a GET, and no operation changes
\* next_started, next_cursor, previous_cursor or the number of GETs.
C4_ExhaustedCursorStateIsNeverLeft ==
    [][(kind = "cursor" /\ next_started /\ ~Truthy(next_cursor))
          => /\ UNCHANGED <<next_started, next_cursor, previous_cursor, nfetch>>
             /\ adv'.called => (adv'.raised = "NoMoreItems" /\ ~adv'.fetched)]_vars

C4_Witness ==
    /\ kind = "cursor"
    /\ next_started
    /\ next_cursor = None
    /\ nfetch >= 1
    /\ adv.called
    /\ ~adv.fetched
    /\ adv.raised = "NoMoreItems"

\* C5: the first next() call of a cursor iterator issues a GET, and the cursor
\* parameter of the first GET is the empty string; a call that raises
\* NoMoreItems comes only after that GET.
C5_FirstFetchSendsEmptyCursor ==
    kind = "cursor"
        => /\ adv.called => nfetch >= 1
           /\ nfetch = 1 => sent = ""
           /\ exhausted => nfetch >= 1

C5_Witness ==
    /\ kind = "cursor"
    /\ nfetch = 1
    /\ adv.fetched
    /\ sent = ""
    /\ next_started

\* C6 as stated, on the runs in which no next() call has raised NoMoreItems:
\* the pageNumber parameter of the n-th GET of a page-number iterator is n.
C6_NthFetchSendsN ==
    (kind = "pagenumber" /\ ~exhausted /\ nfetch >= 1) => sent = nfetch

\* C6 amended: the pageNumber parameter of a GET is 1 plus the number of
\* earlier GETs answered with a non-empty array, and page_number is 1 plus
\* the number of GETs answered with a non-empty array.
C6_SendsOnePlusNonEmpty ==
    kind = "pagenumber"
        => /\ page_number = 1 + nonempty
           /\ nfetch >= 1
                => sent = 1 + nonempty
                            - (IF got.status = "ok" /\ got.n > 0 THEN 1 ELSE 0)

C6_Witness ==
    /\ kind = "pagenumber"
    /\ nfetch = 3
    /\ sent = 2
    /\ got.status = "ok"
    /\ got.n > 0
    /\ page_number = 3

\* C7: when the first GET of a cursor iterator is answered with an empty data
\* array and neither cursor key, the first step of the Item View ends in
\* StopAsyncIteration.
C7_EmptyPageWithoutCursorsEndsCleanly ==
    (/\ kind = "cursor"
     /\ ret.op = "items_anext"
     /\ adv.fetched
     /\ nfetch = 1
     /\ got.status = "ok"
     /\ got.n = 0
     /\ got.nextPageCursor = Absent
     /\ got.previousPageCursor = Absent)
        => ret.raised = "StopAsyncIteration"

\* C8: IteratorItems.__aiter__ sets _position to 0 and _items to the empty
\* list and leaves next_cursor, next_started and page_number alone; a step of
\* the view taken while the buffer is empty, as it is from the restart until
\* the next item, calls next() and, when it yields, yields the first item of
\* the page that call fetched; no item yielded comes from a page of which a
\* restart discarded unread items.
C8_RestartDiscardsBuffer ==
    [][/\ ret'.op = "items_aiter"
            => /\ _position' = 0
               /\ _items' = <<>>
               /\ UNCHANGED <<next_cursor, next_started, page_number>>
       /\ (_items = <<>> /\ ret'.op = "items_anext")
            => /\ adv'.called
               /\ ret'.raised = "" => (adv'.fetched /\ ret'.value = adv'.data[1])
       /\ (ret'.op = "items_anext" /\ ret'.raised = "")
            => PageOf(ret'.value) > dropped']_vars

C8_Witness ==
    /\ dropped >= 1
    /\ ret.op = "items_anext"
    /\ ret.raised = ""
    /\ _position = 1
    /\ PageOf(ret.value) = dropped + 1
    /\ next_started

\* C9: a next() call of a cursor iterator whose GET is answered with a body
\* holding both cursor keys returns the page of that body, also when the data
\* array and nextPageCursor are empty; NoMoreItems is raised only by a call
\* that issues no GET and finds next_started true and next_cursor empty.
C9_FetchedPageIsReturned ==
    kind = "cursor"
        => /\ (/\ adv.fetched
               /\ got.status = "ok"
               /\ got.nextPageCursor # Absent
               /\ got.previousPageCursor # Absent)
                => (adv.raised = "" /\ Len(adv.data) = got.n)
           /\ adv.raised = "NoMoreItems"
                => (~adv.fetched /\ next_started /\ ~Truthy(next_cursor))

C9_Witness ==
    /\ kind = "cursor"
    /\ nfetch = 2
    /\ adv.fetched
    /\ got.status = "ok"
    /\ got.n = 0
    /\ got.nextPageCursor = ""
    /\ got.previousPageCursor # Absent
    /\ adv.raised = ""
    /\ adv.data = <<>>

\* the pages of a sequence of pages, joined in order
RECURSIVE Concat(_)
Concat(pages) ==
    IF pages = <<>> THEN <<>> ELSE Head(pages) \o Concat(Tail(pages))

\* the pages that come before the first empty page
RECURSIVE BeforeFirstEmpty(_)
BeforeFirstEmpty(pages) ==
    IF pages = <<>> \/ Head(pages) = <<>> THEN <<>>
    ELSE <<Head(pages)>> \o BeforeFirstEmpty(Tail(pages))

Over(t) == ended[t] \notin {"", "running"}

\* C2 as stated: when the Item View traversal and the Page View traversal of
\* an identical response sequence have both terminated, the items yielded are
\* the pages yielded, joined in order.
C2_ItemsArePagesFlattened ==
    (ended.items = "StopAsyncIteration" /\ ended.pages = "StopAsyncIteration")
        => yielded.items = Concat(yielded.pages)

\* C2 amended: when both traversals are over, the items yielded are the pages
\* that the Page View yielded before its first empty page, joined in order.
C2_ItemsArePagesBeforeFirstEmpty ==
    (Over("items") /\ Over("pages"))
        => yielded.items = Concat(BeforeFirstEmpty(yielded.pages))

C2_Witness ==
    /\ ended.items = "StopAsyncIteration"
    /\ ended.pages = "StopAsyncIteration"
    /\ Len(yielded.pages) = 3
    /\ Len(yielded.pages[1]) = 2
    /\ yielded.pages[2] = <<>>
    /\ yielded.pages[3] # <<>>
    /\ yielded.items = yielded.pages[1]

\* C3: the list flatten() returns is the pages that the Page View traversal
\* of an identical response sequence yielded before it terminated, joined in
\* order.
C3_FlattenIsPagesFlattened ==
    ended.flatten = "returned"
        => /\ ended.pages = "StopAsyncIteration"
           /\ yielded.flatten = Concat(yielded.pages)

C3_Witness ==
    /\ ended.flatten = "returned"
    /\ kind = "cursor"
    /\ Len(yielded.pages) = 3
    /\ yielded.pages[1] = <<>>
    /\ Len(yielded.pages[2]) = 2
    /\ Len(yielded.flatten) = 3

\* the server has answered with k non-empty arrays and then an empty one
PagesThenEmpty(k) ==
    /\ Len(script) = k + 1
    /\ \A i \in 1..k : script[i].status = "ok" /\ script[i].n > 0
    /\ script[k + 1].status = "ok"
    /\ script[k + 1].n = 0

\* C10: against a page-number server that answers pages 1..k with non-empty
\* arrays and page k+1 with an empty one, flatten() on a fresh iterator
\* returns the items of pages 1..k in order, after exactly k+1 GETs, with
\* page_number left at k+1.
C10_FlattenOverNumberedPages ==
    \A k \in 0..MaxFetch :
        (kind = "pagenumber" /\ Over("flatten") /\ PagesThenEmpty(k))
            => /\ ended.flatten = "returned"
               /\ yielded.flatten
                    = Concat([i \in 1..k |-> Handle(Page(i, script[i].n))])
               /\ nfetch = k + 1
               /\ sent = k + 1
               /\ page_number = k + 1

C10_Witness ==
    /\ kind = "pagenumber"
    /\ ended.flatten = "returned"
    /\ PagesThenEmpty(2)
    /\ Len(yielded.flatten) = 4
    /\ page_number = 3

\* the server's pages are k well-formed cursor responses, the first k-1 with a
\* non-empty nextPageCursor and the k-th with an empty one ("" or null)
CursorChain(k) ==
    /\ Len(script) = k
    /\ \A i \in 1..k :
          /\ script[i].status = "ok"
          /\ script[i].nextPageCursor # Absent
          /\ script[i].previousPageCursor # Absent
          /\ Truthy(script[i].nextPageCursor) <=> i < k

\* C11: against a cursor server of k pages (k >= 1), the first k-1 with a
\* non-empty nextPageCursor and the k-th with an empty one, flatten() on a
\* fresh iterator returns the items of the k pages in order, after exactly k
\* GETs, and the next() call that follows the k-th GET raises NoMoreItems.
C11_FlattenOverCursorChain ==
    \A k \in 1..MaxFetch :
        (kind = "cursor" /\ Over("flatten") /\ CursorChain(k))
            => /\ ended.flatten = "returned"
               /\ yielded.flatten
                    = Concat([i \in 1..k |-> Handle(Page(i, script[i].n))])
               /\ nfetch = k
               /\ adv.called
               /\ adv.raised = "NoMoreItems"

C11_Witness ==
    /\ kind = "cursor"
    /\ ended.flatten = "returned"
    /\ CursorChain(3)
    /\ Len(yielded.flatten) >= 3
    /\ nfetch = 3
    /\ adv.raised = "NoMoreItems"

\* C12: a step of the Item View or of the Page View, and flatten(), never end
\* in NoMoreItems: when the next() call they made raised NoMoreItems, the view
\* step ends in StopAsyncIteration and flatten() returns the list it had
\* accumulated before that call (empty when it was its first pass).
C12_ExhaustionNeverReachesTheCaller ==
    [][/\ ret'.op \in {"items_anext", "pages_anext", "flatten"}
            => ret'.raised # "NoMoreItems"
       /\ (ret'.op \in {"items_anext", "pages_anext"}
              /\ adv'.raised = "NoMoreItems")
            => ret'.raised = "StopAsyncIteration"
       /\ (ret'.op = "flatten" /\ adv'.raised = "NoMoreItems")
            => /\ ret'.raised = ""
               /\ ret'.value = IF pc = "flatten" THEN flat ELSE <<>>]_vars

C12_Witness ==
    /\ ret.op = "flatten"
    /\ adv.raised = "NoMoreItems"
    /\ ret.raised = ""
    /\ Len(ret.value) >= 2
    /\ nfetch >= 2

\* C13: when the transport fails the GET of a next() call, that call raises
\* the transport's failure, and so does the view step or the flatten() call
\* that made it: none of them ends in NoMoreItems, in StopAsyncIteration or
\* with a page or a list.
C13_TransportFailureReachesTheCaller ==
    (adv.fetched /\ got.status = "error")
        => /\ adv.raised = "TransportError"
           /\ ret.op \in {"next", "items_anext", "pages_anext", "flatten"}
           /\ ret.raised = "TransportError"
           /\ ret.value = <<>>
           /\ pc = "idle"

C13_Witness ==
    /\ adv.fetched
    /\ got.status = "error"
    /\ ret.op = "flatten"
    /\ ret.raised = "TransportError"
    /\ Len(flat) >= 1
    /\ nfetch >= 2

\* C14: against a server with finitely many pages, stepping the Page View of
\* a fresh iterator again and again reaches StopAsyncIteration, and so does
\* stepping the Item View of a fresh iterator.
C14_ViewsTerminate ==
    <>(/\ ended.pages = "StopAsyncIteration"
       /\ ended.items = "StopAsyncIteration")

C14_Witness ==
    /\ ended.pages = "StopAsyncIteration"
    /\ ended.items = "StopAsyncIteration"
    /\ Len(yielded.pages) >= 2
    /\ Len(yielded.items) >= 3
    /\ nfetch >= 2

\* C15: between operations, whatever Item View steps, restarts, Page View
\* steps, next() calls and flatten() calls came before and however they ended,
\* the Item View's position lies between 0 and the length of its buffer.
C15_PositionWithinBuffer ==
    _position \in 0..Len(_items)

C15_Witness ==
    /\ ret.op = "items_anext"
    /\ ret.raised = "TransportError"
    /\ _position = 0
    /\ Len(_items) = 2
    /\ nfetch >= 2

\* C16: in a page-number iterator no next() call, view step, Item View
\* restart or flatten() pass decreases page_number, and a next() call whose
\* GET is answered with an empty array raises NoMoreItems and leaves
\* page_number as it was before the call.
C16_PageNumberNeverDecreases ==
    [][kind = "pagenumber"
          => /\ page_number' >= page_number
             /\ (adv'.fetched /\ got'.status = "ok" /\ got'.n = 0)
                  => /\ adv'.raised = "NoMoreItems"
                     /\ page_number' = page_number]_vars

C16_Witness ==
    /\ kind = "pagenumber"
    /\ adv.fetched
    /\ got.status = "ok"
    /\ got.n = 0
    /\ adv.raised = "NoMoreItems"
    /\ sent = 3
    /\ page_number = 3

\* C17, as claimed: every next() call issues exactly one GET (and an operation
\* that makes no next() call issues none).
C17_ExactlyOneGetPerCall ==
    [][/\ adv'.called => nfetch' = nfetch + 1
       /\ ~adv'.called => nfetch' = nfetch]_vars

\* C17, amended: every next() call issues at most one GET: exactly one, but
\* none when it is a cursor iterator's call that finds next_started true and
\* next_cursor empty.  Every Item View step, Page View step and flatten() pass
\* makes at most one next() call, and that call has raised or returned when
\* the step is over: flatten() is in progress only after a returned page.
C17_AtMostOneGetPerCall ==
    [][/\ adv'.called
            => nfetch' = nfetch + (IF /\ kind = "cursor"
                                      /\ next_started
                                      /\ ~Truthy(next_cursor) THEN 0 ELSE 1)
       /\ ~adv'.called => nfetch' = nfetch
       /\ adv'.fetched <=> nfetch' = nfetch + 1
       /\ pc' = "flatten" => (adv'.called /\ adv'.raised = "")]_vars

C17_Witness ==
    /\ kind = "cursor"
    /\ ret.op = "flatten"
    /\ ret.raised = ""
    /\ adv.called
    /\ ~adv.fetched
    /\ nfetch = 2
    /\ Len(ret.value) >= 2

\* C18: in a cursor iterator, every GET after the first successful one sends
\* as its cursor the nextPageCursor of the latest GET before it whose page
\* next() returned, and after a GET whose page next() returns, next_cursor
\* and previous_cursor are the nextPageCursor and previousPageCursor of its
\* answer.
C18_FetchSendsCursorOfLastPage ==
    [][kind = "cursor"
          => /\ (nfetch' = nfetch + 1 /\ page_cursor # NoPage)
                  => sent' = page_cursor
             /\ (adv'.fetched /\ adv'.raised = "")
                  => /\ next_cursor' = got'.nextPageCursor
                     /\ previous_cursor' = got'.previousPageCursor]_vars

\* C19: a next() call whose GET the transport fails leaves next_started,
\* next_cursor, previous_cursor and page_number as they were before the call,
\* and a next() call made right after it issues a GET with the same parameter.
C19_FailedFetchLeavesProtocolState ==
    [][/\ (adv'.fetched /\ got'.status = "error")
            => UNCHANGED <<next_started, next_cursor, previous_cursor,
                           page_number>>
       /\ (adv.fetched /\ got.status = "error" /\ adv'.called)
            => (adv'.fetched /\ sent' = sent)]_vars

\* C20: over any sequence of steps of one Item View without a restart, steps
\* that ended in a transport failure and were followed by further steps
\* included, no item of a fetched page is yielded twice.
C20_NoItemYieldedTwice ==
    \A i, j \in 1..Len(yielded.items) :
        i # j => yielded.items[i] # yielded.items[j]

\* C21: once a step of the Item View has ended in StopAsyncIteration, the
\* step the caller makes next (without a restart) ends in StopAsyncIteration
\* too and yields no item; so does, step after step, every later one.  The
\* termination may come from a fetched page that is empty while its
\* nextPageCursor is not.
C21_TerminationIsFinal ==
    [][(ret.op = "items_anext" /\ ret.raised = "StopAsyncIteration")
          => /\ ret'.raised = "StopAsyncIteration"
             /\ UNCHANGED yielded]_vars

\* C22: when Item View steps, Page View steps and next() calls on one iterator
\* follow one another, a Page View step or a next() call leaves the Item
\* View's position and buffer unchanged and the page it returns is the page
\* just fetched, no item of which is in the buffer; the buffer is filled only
\* by an Item View step, with the page that very step fetched.
C22_EachPageToOneConsumer ==
    [][/\ ret'.op \in {"pages_anext", "next"}
            => UNCHANGED <<_position, _items>>
       /\ (ret'.op \in {"pages_anext", "next"} /\ ret'.raised = "")
            => /\ adv'.fetched
               /\ ret'.value = adv'.data
               /\ \A i \in 1..Len(ret'.value) : \A j \in 1..Len(_items') :
                     _items'[j] # ret'.value[i]
       /\ (_items' # _items /\ _items' # <<>>)
            => /\ ret'.op = "items_anext"
               /\ adv'.fetched
               /\ _items' = adv'.data
               /\ ret'.value = _items'[1]]_vars

C22_Witness ==
    /\ ret.op = "pages_anext"
    /\ ret.raised = ""
    /\ Len(ret.value) = 2
    /\ Len(_items) = 2
    /\ _position = 1
    /\ nfetch >= 2

\* C23: Iterator.__aiter__ changes neither the position nor the buffer of the
\* Item View, so the first step of a traversal begun with it yields the next
\* unread item of the buffered page, without a fetch, when there is one;
\* IteratorItems.__aiter__ empties the buffer, so the first step of a
\* traversal begun with it calls next() and yields, if anything, the first
\* item of the page that call returns.
C23_DirectStartKeepsTheBuffer ==
    [][/\ ret'.op = "aiter" => UNCHANGED <<_position, _items, iter, server>>
       /\ (ret.op = "aiter" /\ _position < Len(_items)
              /\ ret'.op = "items_anext")
            => /\ ~adv'.called
               /\ ret'.raised = ""
               /\ ret'.value = _items[_position + 1]
       /\ ret'.op = "items_aiter" => (_position' = 0 /\ _items' = <<>>)
       /\ (ret.op = "items_aiter" /\ ret'.op = "items_anext")
            => /\ adv'.called
               /\ ret'.raised = "" => ret'.value = adv'.data[1]]_vars

C23_Witness ==
    /\ ret.op = "aiter"
    /\ _position = 1
    /\ Len(_items) = 2
    /\ nfetch >= 1

====
